---- MODULE Spec2Model ----
(***************************************************************************)
(* Model of backup_releases.py: the pure helpers (parse_target,            *)
(* normalize_tag, sanitize_for_tag, get_latest_release's selection) as     *)
(* operators, and main() as a sequential state machine stepping through    *)
(* its remote calls and the 7z subprocess.                                 *)
(*                                                                         *)
(* A Python str is a sequence of one-character strings.                    *)
(***************************************************************************)
EXTENDS Integers, Sequences, FiniteSets, TLC

VARIABLES targets, run, pc, idx, cur, backup, hist, has7z, probe

vars == <<targets, run, pc, idx, cur, backup, hist, has7z, probe>>

pipeVars == <<targets, run, pc, idx, cur, backup, hist, has7z>>

\* ------------------------------------------------------------- bounds

\* longest owner / repo string enumerated for parse_target
MaxNameLen == 2
\* longest raw tag enumerated for normalize_tag
MaxTagLen == 3
\* longest short input enumerated for sanitize_for_tag
MaxSanLen == 3
\* largest explicit max_len enumerated for sanitize_for_tag (besides the default)
MaxMaxLen == 8
\* longest release list enumerated for get_latest_release
MaxReleases == 3
\* number of entries of targets.json
NumTargets == 2

\* ------------------------------------------------------------- strings

None == <<"<None>">>

unknown == <<"u", "n", "k", "n", "o", "w", "n">>

Letters ==
  {"a", "b", "c", "d", "e", "f", "g", "h", "i", "j", "k", "l", "m", "n", "o",
   "p", "q", "r", "s", "t", "u", "v", "w", "x", "y", "z", "V"}

Digits == {"0", "1", "2", "3", "4", "5", "6", "7", "8", "9"}

\* \w of the regular expressions
IsWordChar(c) == c \in Letters \cup Digits \cup {"_"}

\* the complement of the class [^\w\.-]
IsTagChar(c) == IsWordChar(c) \/ c \in {".", "-"}

IsSpace(c) == c \in {" "}

\* the argument of strip("._-") and rstrip("._-")
Separators == {".", "_", "-"}

\* positions of s holding a character outside cs
KeptPositions(s, cs) == {i \in 1..Len(s) : s[i] \notin cs}

First(ps) == CHOOSE i \in ps : \A j \in ps : i <= j

Last(ps) == CHOOSE i \in ps : \A j \in ps : j <= i

\* str.lstrip(cs)
LStripSet(s, cs) ==
  LET ps == KeptPositions(s, cs)
  IN IF ps = {} THEN <<>> ELSE SubSeq(s, First(ps), Len(s))

\* str.rstrip(cs)
RStripSet(s, cs) ==
  LET ps == KeptPositions(s, cs)
  IN IF ps = {} THEN <<>> ELSE SubSeq(s, 1, Last(ps))

\* str.strip(cs)
StripSet(s, cs) == RStripSet(LStripSet(s, cs), cs)

\* str.strip()
Strip(s) == StripSet(s, {" "})

\* s[:n]
Prefix(s, n) == SubSeq(s, 1, IF n < Len(s) THEN n ELSE Len(s))

\* position of the first "/" of s, 0 when there is none
RECURSIVE FindSlash(_, _)
FindSlash(s, i) ==
  IF i > Len(s) THEN 0 ELSE IF s[i] = "/" THEN i ELSE FindSlash(s, i + 1)

Rep(c, n) == [i \in 1..n |-> c]

RECURSIVE StringsUpTo(_, _)
StringsUpTo(alphabet, n) ==
  IF n = 0 THEN {<<>>}
  ELSE LET shorter == StringsUpTo(alphabet, n - 1)
       IN shorter \cup {Append(s, c) : s \in shorter, c \in alphabet}

\* ------------------------------------------------------------- parse_target

\* JSON values of a target entry: a dict is a function from its keys
Str(x) == [type |-> "str", s |-> x, b |-> FALSE]

Bool(x) == [type |-> "bool", s |-> <<>>, b |-> x]

Null == [type |-> "null", s |-> <<>>, b |-> FALSE]

\* bool(v)
Truthy(v) ==
  CASE v.type = "str" -> v.s # <<>>
    [] v.type = "bool" -> v.b
    [] OTHER -> FALSE

\* t.get(k)
Get(t, k) == IF k \in DOMAIN t THEN t[k] ELSE Null

allow_keys ==
  <<"allow_prerelease", "allow_prereleases", "include_prerelease",
    "include_prereleases", "prerelease">>

Triple(o, r, a) ==
  [none |-> FALSE, raised |-> FALSE, owner |-> o, repo_name |-> r,
   allow_prerelease |-> a]

\* return None, None, None
NoneTriple ==
  [none |-> TRUE, raised |-> FALSE, owner |-> <<>>, repo_name |-> <<>>,
   allow_prerelease |-> FALSE]

\* AttributeError: .strip() of a value that is no str
RaisedTriple ==
  [none |-> FALSE, raised |-> TRUE, owner |-> <<>>, repo_name |-> <<>>,
   allow_prerelease |-> FALSE]

\* the for loop over allow_keys: the first key present decides
AllowOf(t) ==
  LET present == {i \in 1..Len(allow_keys) : allow_keys[i] \in DOMAIN t}
  IN IF present = {} THEN FALSE ELSE Truthy(t[allow_keys[First(present)]])

\* the separate-fields branch returning owner without .strip()
parse_target_owner_unstripped(t) ==
  LET allow == AllowOf(t)
  IN IF "repo" \in DOMAIN t /\ t["repo"].type = "str"
       THEN LET r == Strip(t["repo"].s)
                slash == FindSlash(r, 1)
            IN IF slash # 0
                 THEN Triple(Strip(SubSeq(r, 1, slash - 1)),
                             Strip(SubSeq(r, slash + 1, Len(r))), allow)
                 ELSE LET owner == IF Truthy(Get(t, "owner")) THEN Get(t, "owner")
                                   ELSE IF Truthy(Get(t, "user")) THEN Get(t, "user")
                                   ELSE Null
                      IN IF Truthy(owner)
                           THEN IF owner.type = "str"
                                  THEN Triple(owner.s, r, allow)
                                  ELSE RaisedTriple
                           ELSE NoneTriple
       ELSE IF "owner" \in DOMAIN t /\ "repo" \in DOMAIN t
         THEN RaisedTriple
         ELSE NoneTriple

parse_target(t) ==
  LET allow == AllowOf(t)
  IN IF "repo" \in DOMAIN t /\ t["repo"].type = "str"
       THEN LET r == Strip(t["repo"].s)
                slash == FindSlash(r, 1)
            IN IF slash # 0
                 THEN Triple(Strip(SubSeq(r, 1, slash - 1)),
                             Strip(SubSeq(r, slash + 1, Len(r))), allow)
                 ELSE LET owner == IF Truthy(Get(t, "owner")) THEN Get(t, "owner")
                                   ELSE IF Truthy(Get(t, "user")) THEN Get(t, "user")
                                   ELSE Null
                      IN IF Truthy(owner)
                           THEN IF owner.type = "str"
                                  THEN Triple(Strip(owner.s), r, allow)
                                  ELSE RaisedTriple
                           ELSE NoneTriple
       \* here t["repo"] is no str, so t["repo"].strip() (or t["owner"].strip()
       \* before it) raises
       ELSE IF "owner" \in DOMAIN t /\ "repo" \in DOMAIN t
         THEN RaisedTriple
         ELSE NoneTriple

\* main(): if not owner or not repo_name
IsSkippedEntry(parsed) ==
  ~parsed.raised /\ (parsed.none \/ parsed.owner = <<>> \/ parsed.repo_name = <<>>)

\* ------------------------------------------------------------- normalize_tag

\* startswith("v") without the lower()
normalize_tag_lower_only(raw_tag) ==
  IF raw_tag = <<>> THEN unknown
  ELSE LET rt == Strip(raw_tag)
       IN IF rt # <<>> /\ rt[1] = "v" THEN Tail(rt) ELSE rt

normalize_tag(raw_tag) ==
  IF raw_tag = <<>> THEN unknown
  ELSE LET rt == Strip(raw_tag)
       IN IF rt # <<>> /\ rt[1] \in {"v", "V"} THEN Tail(rt) ELSE rt

\* ------------------------------------------------------------- sanitize_for_tag

Dropped == ""

IsKept(c) == c # Dropped

\* re.sub(r"[^\w\.-]+", "_", s): every maximal run of other characters
\* becomes one underscore (written at the run's last position)
SubForbidden(s) ==
  SelectSeq([i \in 1..Len(s) |->
               IF IsTagChar(s[i]) THEN s[i]
               ELSE IF i < Len(s) /\ ~IsTagChar(s[i + 1]) THEN Dropped
               ELSE "_"],
            IsKept)

\* re.sub(r"_{2,}", "_", s): every run of underscores becomes one
CollapseUnderscores(s) ==
  SelectSeq([i \in 1..Len(s) |->
               IF s[i] = "_" /\ i < Len(s) /\ s[i + 1] = "_" THEN Dropped
               ELSE s[i]],
            IsKept)

\* off-by-one slice: s[:max_len + 1]
sanitize_for_tag_off_by_one(s, max_len) ==
  IF s = <<>> THEN unknown
  ELSE LET s3 == StripSet(CollapseUnderscores(SubForbidden(s)), Separators)
           s4 == IF Len(s3) > max_len
                   THEN RStripSet(Prefix(s3, max_len + 1), Separators)
                   ELSE s3
       IN IF s4 = <<>> THEN unknown ELSE s4

sanitize_for_tag(s, max_len) ==
  IF s = <<>> THEN unknown
  ELSE LET s3 == StripSet(CollapseUnderscores(SubForbidden(s)), Separators)
           s4 == IF Len(s3) > max_len
                   THEN RStripSet(Prefix(s3, max_len), Separators)
                   ELSE s3
       IN IF s4 = <<>> THEN unknown ELSE s4

\* default of sanitize_for_tag's max_len
DefaultMaxLen == 80

\* bound of the composed backup tag
MaxBackupTag == 100

\* ------------------------------------------------------------- get_latest_release

\* a release of the host's JSON; an absent or empty field is <<>>
Release(id, tag_name, author_login, draft, prerelease, n_assets) ==
  [id |-> id, tag_name |-> tag_name, name |-> <<>>,
   author_login |-> author_login, author_name |-> <<>>,
   draft |-> draft, prerelease |-> prerelease, n_assets |-> n_assets]

\* the None that get_latest_release returns
NoRelease == Release(0, <<>>, <<>>, FALSE, FALSE, 0)

Response(status, body) == [status |-> status, body |-> body]

\* the for loop over r.json(): the first release passing both filters from
\* position i on
RECURSIVE ScanReleases(_, _, _)
ScanReleases(rels, i, allow_prerelease) ==
  IF i > Len(rels) THEN NoRelease
  ELSE IF rels[i].draft THEN ScanReleases(rels, i + 1, allow_prerelease)
  ELSE IF rels[i].prerelease /\ ~allow_prerelease
    THEN ScanReleases(rels, i + 1, allow_prerelease)
  ELSE rels[i]

\* the loop without its draft filter
RECURSIVE ScanReleasesKeepDrafts(_, _, _)
ScanReleasesKeepDrafts(rels, i, allow_prerelease) ==
  IF i > Len(rels) THEN NoRelease
  ELSE IF rels[i].prerelease /\ ~allow_prerelease
    THEN ScanReleasesKeepDrafts(rels, i + 1, allow_prerelease)
  ELSE rels[i]

get_latest_release_keep_drafts(latest, listing, allow_prerelease) ==
  IF ~allow_prerelease /\ latest.status = 200
    THEN [release |-> latest.body, listed |-> FALSE]
  ELSE IF listing.status # 200
    THEN [release |-> NoRelease, listed |-> TRUE]
  ELSE [release |-> ScanReleasesKeepDrafts(listing.body, 1, allow_prerelease),
        listed |-> TRUE]

\* latest is the response of GET .../releases/latest and listing that of
\* GET .../releases; listed tells whether the second request is made
get_latest_release(latest, listing, allow_prerelease) ==
  IF ~allow_prerelease /\ latest.status = 200
    THEN [release |-> latest.body, listed |-> FALSE]
  ELSE IF listing.status # 200
    THEN [release |-> NoRelease, listed |-> TRUE]
  ELSE [release |-> ScanReleases(listing.body, 1, allow_prerelease),
        listed |-> TRUE]

\* An upstream repository on the host: its releases in the host's listing
\* order and the position of the one the host serves as latest (0: none).
\* The host serves as latest only a published release that is neither draft
\* nor prerelease.
Upstream(rels, latest) == [releases |-> rels, latest |-> latest]

\* GET .../releases/latest: 200 with the latest release, 404 when there is
\* none, or a failure (500)
LatestResponses(up) ==
  {Response(500, NoRelease),
   IF up.latest = 0 THEN Response(404, NoRelease)
   ELSE Response(200, up.releases[up.latest])}

\* GET .../releases: 200 with the releases in the host's order, or a failure
ListingResponses(up) == {Response(200, up.releases), Response(500, <<>>)}

\* ------------------------------------------------------------- backup tag (main)

\* the tag stamped with the run it was made in
backup_tag_stamped(owner, repo_name, raw_tag, author_login) ==
  LET owner_s == sanitize_for_tag(owner, DefaultMaxLen)
      repo_s == sanitize_for_tag(repo_name, DefaultMaxLen)
      ver_s == sanitize_for_tag(normalize_tag(raw_tag), DefaultMaxLen)
      author_s == sanitize_for_tag(author_login, DefaultMaxLen)
      t == owner_s \o <<"_">> \o repo_s \o <<"-", "v">> \o ver_s
             \o <<"-", "b", "y", "-">> \o author_s
             \o <<"-", IF run = 1 THEN "1" ELSE "2">>
  IN IF Len(t) > MaxBackupTag
       THEN RStripSet(Prefix(t, MaxBackupTag), Separators)
       ELSE t

\* main(): simple_tag, the four sanitized components, the composed backup_tag
backup_tag(owner, repo_name, raw_tag, author_login) ==
  LET simple_tag == normalize_tag(raw_tag)
      owner_s == sanitize_for_tag(owner, DefaultMaxLen)
      repo_s == sanitize_for_tag(repo_name, DefaultMaxLen)
      ver_s == sanitize_for_tag(simple_tag, DefaultMaxLen)
      author_s == sanitize_for_tag(author_login, DefaultMaxLen)
      t == owner_s \o <<"_">> \o repo_s \o <<"-", "v">> \o ver_s
             \o <<"-", "b", "y", "-">> \o author_s
  IN IF Len(t) > MaxBackupTag
       THEN RStripSet(Prefix(t, MaxBackupTag), Separators)
       ELSE t

\* ------------------------------------------------------------- main

\* raw_tag = release.get("tag_name") or release.get("name") or "unknown"
RawTagOf(release) ==
  IF release.tag_name # <<>> THEN release.tag_name
  ELSE IF release.name # <<>> THEN release.name
  ELSE unknown

\* author_login = author.get("login") or author.get("name") or "unknown"
AuthorOf(release) ==
  IF release.author_login # <<>> THEN release.author_login
  ELSE IF release.author_name # <<>> THEN release.author_name
  ELSE unknown

\* the two consecutive runs of main() against the same targets.json
Runs == 1..2

\* what main() has done for one target in one run
Fresh ==
  [outcome |-> "pending", src |-> <<>>, tag |-> <<>>, existed |-> FALSE,
   downloads |-> 0, archives |-> 0, tool_missing |-> FALSE, creates |-> 0,
   created |-> FALSE, uploads |-> 0, untouched |-> TRUE]

\* main()'s locals for the current target
NoLocals ==
  [owner |-> <<>>, repo_name |-> <<>>, allow_prerelease |-> FALSE,
   release |-> NoRelease, backup_tag |-> <<>>, before |-> {}]

\* a release of the backup repository; body names the upstream release
BackupRelease(tag_name, body, n_assets) ==
  [tag_name |-> tag_name, body |-> body, n_assets |-> n_assets]

BackupTags == {b.tag_name : b \in backup}

\* main()'s record of the current target
Here == hist[run][idx]

\* the end of one iteration of for t in targets (continue, or the loop's end)
EndTarget(rec) ==
  /\ hist' = [hist EXCEPT ![run][idx] = rec]
  /\ IF idx < Len(targets)
       THEN idx' = idx + 1 /\ pc' = "parse"
       ELSE idx' = idx /\ pc' = "finished"

\* a further step of the same iteration
Continue(rec, next) ==
  /\ hist' = [hist EXCEPT ![run][idx] = rec]
  /\ idx' = idx
  /\ pc' = next

\* an exception nothing catches: main() and the run end here
Abort(rec) ==
  /\ hist' = [hist EXCEPT ![run][idx] = [rec EXCEPT !.outcome = "aborted"]]
  /\ idx' = idx
  /\ pc' = "aborted"

\* owner, repo_name, allow_prerelease = parse_target(t); the validity test
ParseTarget ==
  /\ pc = "parse"
  /\ LET parsed == parse_target(targets[idx])
     IN IF parsed.raised
          THEN Abort(Here) /\ cur' = NoLocals
        ELSE IF IsSkippedEntry(parsed)
          THEN EndTarget([Here EXCEPT !.outcome = "invalid"]) /\ cur' = NoLocals
        ELSE /\ cur' = [NoLocals EXCEPT !.owner = parsed.owner,
                                        !.repo_name = parsed.repo_name,
                                        !.allow_prerelease = parsed.allow_prerelease,
                                        !.before = backup]
             /\ Continue(Here, "fetch")
  /\ UNCHANGED <<targets, run, backup, has7z, probe>>

\* The upstream host, the same in both runs: a/t lists a draft, a prerelease
\* and a stable release; a/.t lists one stable release; nothing else exists.
UpstreamOf(owner, repo_name) ==
  IF owner = <<"a">> /\ repo_name = <<"t">>
    THEN Upstream(<<Release(1, <<"v", "3">>, <<"x">>, TRUE, FALSE, 1),
                    Release(2, <<"v", "2">>, <<"x">>, FALSE, TRUE, 1),
                    Release(3, <<"v", "1">>, <<"x">>, FALSE, FALSE, 2)>>, 3)
  ELSE IF owner = <<"a">> /\ repo_name = <<".", "t">>
    THEN Upstream(<<Release(1, <<"1">>, <<"x">>, FALSE, FALSE, 0)>>, 1)
  ELSE Upstream(<<>>, 0)

\* release = get_latest_release(...); raw_tag ... backup_tag
FetchRelease ==
  /\ pc = "fetch"
  /\ LET up == UpstreamOf(cur.owner, cur.repo_name)
     IN \E latest \in LatestResponses(up), listing \in ListingResponses(up) :
          LET release == get_latest_release(latest, listing,
                                            cur.allow_prerelease).release
              raw_tag == RawTagOf(release)
              author_login == AuthorOf(release)
              tag == backup_tag(cur.owner, cur.repo_name, raw_tag, author_login)
          IN IF release = NoRelease
               THEN /\ EndTarget([Here EXCEPT !.outcome = "no_release"])
                    /\ UNCHANGED cur
               ELSE /\ cur' = [cur EXCEPT !.release = release, !.backup_tag = tag]
                    /\ Continue([Here EXCEPT
                                   !.src = <<cur.owner, cur.repo_name, raw_tag,
                                             author_login>>,
                                   !.tag = tag],
                                "exists")
  /\ UNCHANGED <<targets, run, backup, has7z, probe>>

\* GET .../releases/tags/{tag_name} of the backup repository: 200 only when
\* the tag has a release; the request may fail when it has one, too
ExistsResponses(tag_name) ==
  IF tag_name \in BackupTags THEN {200, 500} ELSE {404, 500}

release_exists_in_backup(status) == status = 200

\* the check made, its answer ignored
CheckBackupNeverSkips ==
  /\ pc = "exists"
  /\ \E status \in ExistsResponses(cur.backup_tag) :
       Continue([Here EXCEPT !.existed = release_exists_in_backup(status)],
                "collect")
  /\ UNCHANGED <<targets, run, cur, backup, has7z, probe>>

\* if release_exists_in_backup(backup_tag): ... continue
CheckBackup ==
  /\ pc = "exists"
  /\ \E status \in ExistsResponses(cur.backup_tag) :
       IF release_exists_in_backup(status)
         THEN EndTarget([Here EXCEPT !.existed = TRUE, !.outcome = "skipped",
                                     !.untouched = (backup = cur.before)])
         ELSE Continue(Here, "collect")
  /\ UNCHANGED <<targets, run, cur, backup, has7z, probe>>

\* the download loop (one request per asset; a failed one only leaves the
\* asset out) and release-notes.txt
CollectAssets ==
  /\ pc = "collect"
  /\ Continue([Here EXCEPT !.downloads = cur.release.n_assets], "archive")
  /\ UNCHANGED <<targets, run, cur, backup, has7z, probe>>

\* create_7z_archive under main's try: RuntimeError when no 7z is on PATH
\* (except subprocess.CalledProcessError does not catch it),
\* CalledProcessError on a non-zero exit status (caught: continue)
Archive ==
  /\ pc = "archive"
  /\ IF ~has7z
       THEN Abort([Here EXCEPT !.archives = @ + 1, !.tool_missing = TRUE])
       ELSE \E exit_status \in {0, 2} :
              IF exit_status # 0
                THEN EndTarget([Here EXCEPT !.archives = @ + 1,
                                            !.outcome = "archive_failed",
                                            !.untouched = (backup = cur.before)])
                ELSE Continue([Here EXCEPT !.archives = @ + 1], "create")
  /\ UNCHANGED <<targets, run, cur, backup, has7z, probe>>

\* POST .../releases of the backup repository: 201 with or without an
\* upload_url, 422 for a tag that has a release already, or another failure
CreateResponses(tag_name) ==
  {[status |-> 403, upload_url |-> FALSE]}
    \cup (IF tag_name \in BackupTags
          THEN {[status |-> 422, upload_url |-> FALSE]}
          ELSE {[status |-> 201, upload_url |-> u] : u \in BOOLEAN})

\* create_github_release_and_upload, up to the upload_url test
CreateRelease ==
  /\ pc = "create"
  /\ \E r \in CreateResponses(cur.backup_tag) :
       LET made == r.status \in {200, 201}
           newBackup == IF made
                          THEN backup \cup {BackupRelease(cur.backup_tag, Here.src, 0)}
                          ELSE backup
           rec == [Here EXCEPT !.creates = @ + 1, !.created = made,
                               !.untouched = (newBackup = cur.before)]
       IN /\ backup' = newBackup
          /\ IF ~made
               THEN EndTarget([rec EXCEPT !.outcome = "create_failed"])
             ELSE IF ~r.upload_url
               THEN EndTarget([rec EXCEPT !.outcome = "no_upload_url"])
             ELSE Continue(rec, "upload")
  /\ UNCHANGED <<targets, run, cur, has7z, probe>>

\* the asset of the release tagged tag_name
WithAsset(tag_name) ==
  {IF b.tag_name = tag_name THEN [b EXCEPT !.n_assets = @ + 1] ELSE b : b \in backup}

\* the upload's status not looked at
UploadAssetAlwaysOk ==
  /\ pc = "upload"
  /\ \E status \in {201, 500} :
       LET newBackup == IF status \in {200, 201} THEN WithAsset(cur.backup_tag)
                        ELSE backup
       IN /\ backup' = newBackup
          /\ EndTarget([Here EXCEPT !.uploads = @ + 1, !.outcome = "done",
                                     !.untouched = (newBackup = cur.before)])
  /\ UNCHANGED <<targets, run, cur, has7z, probe>>

\* create_github_release_and_upload, the upload, and main's report of it
UploadAsset ==
  /\ pc = "upload"
  /\ \E status \in {201, 500} :
       LET ok == status \in {200, 201}
           newBackup == IF ok THEN WithAsset(cur.backup_tag) ELSE backup
       IN /\ backup' = newBackup
          /\ EndTarget([Here EXCEPT
                          !.uploads = @ + 1,
                          !.outcome = IF ok THEN "done" ELSE "upload_failed",
                          !.untouched = (newBackup = cur.before)])
  /\ UNCHANGED <<targets, run, cur, has7z, probe>>

\* the scheduler starts main() again: same targets.json, same upstream, the
\* backup repository as the last run left it
StartNextRun ==
  /\ pc \in {"finished", "aborted"}
  /\ run + 1 \in Runs
  /\ run' = run + 1
  /\ idx' = 1
  /\ pc' = "parse"
  /\ cur' = NoLocals
  /\ has7z' \in BOOLEAN
  /\ UNCHANGED <<targets, backup, hist, probe>>

\* entries of targets.json
TargetPool ==
  {("repo" :> Str(<<"a", "/", "t">>)),
   ("repo" :> Str(<<"a", "/", "t">>)) @@ ("allow_prerelease" :> Bool(TRUE)),
   ("owner" :> Str(<<"a">>)) @@ ("repo" :> Str(<<".", "t">>)),
   ("repo" :> Str(<<"t">>)),
   ("owner" :> Str(<<"a">>)) @@ ("repo" :> Null)}

NoProbe == [fn |-> "main", step |-> 0]

Init ==
  /\ targets \in [1..NumTargets -> TargetPool]
  /\ run = 1
  /\ pc = "parse"
  /\ idx = 1
  /\ cur = NoLocals
  /\ backup = {}
  /\ hist = [r \in Runs |-> [i \in 1..NumTargets |-> Fresh]]
  /\ has7z \in BOOLEAN
  /\ probe = NoProbe

Next ==
  \/ ParseTarget
  \/ FetchRelease
  \/ CheckBackup
  \/ CollectAssets
  \/ Archive
  \/ CreateRelease
  \/ UploadAsset
  \/ StartNextRun

Spec == Init /\ [][Next]_vars

\* ------------------------------------------------------------- properties of main

Slots == Runs \X (1..NumTargets)

At(slot) == hist[slot[1]][slot[2]]

RunEnded == pc \in {"finished", "aborted"}

\* outcomes after which the target's backup tag is in the backup repository
Settled == {"done", "skipped", "upload_failed", "no_upload_url"}

\* C1 as stated: whatever the first run did, no create-release call of the
\* second run succeeds.
C1_SecondRunCreatesNothing ==
  \A i \in 1..NumTargets : ~hist[2][i].created

\* C1 amended: a target that the first run backed up, found backed up, or left
\* with a created release whose upload failed, and for which the second run
\* selects the same upstream release, has no release created by the second run.
C1_SettledTargetCreatesNothing ==
  \A i \in 1..NumTargets :
    (hist[1][i].outcome \in Settled /\ hist[2][i].src = hist[1][i].src)
      => ~hist[2][i].created

\* the first run backs a release up; the second finds it and, for another
\* target, is refused a second release of a tag whose check had failed
C1_Witness ==
  /\ run = 2 /\ pc = "finished"
  /\ \E i, j \in 1..NumTargets :
       /\ hist[1][i].outcome = "done"
       /\ hist[2][i].outcome = "skipped"
       /\ hist[2][i].src = hist[1][i].src
       /\ hist[1][j].outcome \in Settled
       /\ hist[2][j].outcome = "create_failed"

\* C2: a target that finds no 7z ends as a failed target, the run is not
\* aborted, and when the run ends every later target has been processed.
C2_MissingArchiverFailsTargetOnly ==
  \A slot \in Slots :
    At(slot).tool_missing =>
      /\ At(slot).outcome = "archive_failed"
      /\ ~(run = slot[1] /\ pc = "aborted")
      /\ (run > slot[1] \/ RunEnded) =>
           \A j \in (slot[2] + 1)..NumTargets : hist[slot[1]][j].outcome # "pending"

\* C3: a target whose backup tag the check finds in the backup repository
\* ends skipped, with no download, no archive, no create-release and no
\* upload request, and the backup repository as it was.
C3_SkipTouchesNothing ==
  \A slot \in Slots :
    At(slot).existed =>
      /\ At(slot).outcome = "skipped"
      /\ At(slot).downloads = 0
      /\ At(slot).archives = 0
      /\ At(slot).creates = 0
      /\ At(slot).uploads = 0
      /\ At(slot).untouched

\* a second run skipping what the first run backed up
C3_Witness ==
  \E i \in 1..NumTargets :
    /\ hist[1][i].outcome = "done"
    /\ hist[2][i].existed
    /\ hist[2][i].outcome = "skipped"
    /\ \E b \in backup : b.tag_name = hist[2][i].tag /\ b.n_assets = 1

\* C4 as stated: when a run has ended, every release of the backup
\* repository has exactly one asset.
C4_ExactlyOneAsset ==
  RunEnded => \A b \in backup : b.n_assets = 1

\* C4 amended: outside the step between creation and upload, every release of
\* the backup repository has at most one asset: one exactly when a target
\* with that tag ended done, none exactly when such a target's upload failed
\* or its creation response held no upload URL; every target that ended done
\* has its release with one asset.
C4_OneAssetUnlessUploadFailed ==
  pc # "upload" =>
    /\ \A b \in backup :
         /\ b.n_assets <= 1
         /\ b.n_assets = 1 <=>
              \E slot \in Slots :
                At(slot).tag = b.tag_name /\ At(slot).outcome = "done"
         /\ b.n_assets = 0 <=>
              \E slot \in Slots :
                /\ At(slot).tag = b.tag_name
                /\ At(slot).outcome \in {"upload_failed", "no_upload_url"}
    /\ \A slot \in Slots :
         At(slot).outcome = "done" =>
           \E b \in backup : b.tag_name = At(slot).tag /\ b.n_assets = 1

\* a run ending with one complete backup and one release left without asset
C4_Witness ==
  /\ RunEnded
  /\ \E b \in backup : b.n_assets = 1
  /\ \E b \in backup : b.n_assets = 0
  /\ \E slot \in Slots : At(slot).outcome = "upload_failed"

\* each of archive, create-release and upload at most once per target, each
\* only after every earlier stage of the target succeeded
StagesOnceInOrder ==
  \A slot \in Slots :
    LET h == At(slot)
    IN /\ h.archives <= 1 /\ h.creates <= 1 /\ h.uploads <= 1
       /\ h.uploads = 1 => (h.creates = 1 /\ h.created)
       /\ h.creates = 1 => (h.archives = 1 /\ ~h.tool_missing)
       /\ h.archives = 1 => (h.src # <<>> /\ ~h.existed)
       /\ h.outcome \in {"archive_failed", "create_failed", "no_upload_url"}
            => h.uploads = 0
       /\ h.outcome = "archive_failed" => h.creates = 0

\* C6: per target each of archive, create-release and upload is attempted at
\* most once and only after every earlier stage succeeded, and a failure at
\* a stage (fetch, check, collect, archive, create, upload) never ends the
\* run: the next target follows.
C6_StagesOnceInOrderThenNext ==
  /\ StagesOnceInOrder
  /\ \A slot \in Slots : At(slot).src # <<>> => At(slot).outcome # "aborted"

\* C10: upstream releases that differ in owner, repo, tag or author have
\* different backup tags, and a target found backed up was backed up from
\* its own upstream release.
C10_TagIdentifiesRelease ==
  /\ \A s1, s2 \in Slots :
       (At(s1).src # <<>> /\ At(s2).src # <<>> /\ At(s1).src # At(s2).src)
         => At(s1).tag # At(s2).tag
  /\ \A slot \in Slots :
       At(slot).existed =>
         \E b \in backup : b.tag_name = At(slot).tag /\ b.body = At(slot).src

\* ------------------------------------------------------------- idle pipeline

\* the state of main()'s variables while only a helper function is exercised
PipeIdle ==
  /\ targets = <<>>
  /\ run = 0
  /\ pc = "idle"
  /\ idx = 0
  /\ cur = <<>>
  /\ backup = {}
  /\ hist = <<>>
  /\ has7z = TRUE

\* ------------------------------------------------------------- normalize_tag, applied twice

TagAlphabet == {"v", "V", "1", " "}

InitNormalize ==
  /\ PipeIdle
  /\ \E t \in StringsUpTo(TagAlphabet, MaxTagLen) :
       probe = [fn |-> "normalize_tag", raw_tag |-> t, once |-> None,
                twice |-> None, step |-> 0]

NormalizeOnce ==
  /\ probe.fn = "normalize_tag" /\ probe.step = 0
  /\ probe' = [probe EXCEPT !.once = normalize_tag(probe.raw_tag), !.step = 1]
  /\ UNCHANGED pipeVars

NormalizeAgain ==
  /\ probe.fn = "normalize_tag" /\ probe.step = 1
  /\ probe' = [probe EXCEPT !.twice = normalize_tag(probe.once), !.step = 2]
  /\ UNCHANGED pipeVars

NextNormalize == NormalizeOnce \/ NormalizeAgain

SpecNormalize == InitNormalize /\ [][NextNormalize]_vars

StartsWithV(s) == s # <<>> /\ s[1] \in {"v", "V"}

\* C7 as stated: for every raw tag, normalizing the normalized tag changes nothing.
C7_IdempotentEverywhere ==
  (probe.fn = "normalize_tag" /\ probe.step = 2) => probe.twice = probe.once

\* C7 amended: one call strips surrounding whitespace and then exactly one
\* leading v or V when there is one (none otherwise); a second call changes
\* nothing when the first result is non-empty and does not begin with v, V
\* or whitespace.
C7_IdempotentOnNormalized ==
  (probe.fn = "normalize_tag" /\ probe.step = 2 /\ probe.raw_tag # <<>>) =>
    LET rt == Strip(probe.raw_tag)
    IN /\ StartsWithV(rt) => probe.once = Tail(rt)
       /\ ~StartsWithV(rt) => probe.once = rt
       /\ (probe.once # <<>> /\ ~StartsWithV(probe.once) /\ ~IsSpace(probe.once[1]))
            => probe.twice = probe.once

C7_Witness ==
  /\ probe.fn = "normalize_tag" /\ probe.step = 2
  /\ probe.raw_tag = <<"V", "1">>
  /\ probe.once = <<"1">>
  /\ probe.twice = <<"1">>

\* ------------------------------------------------------------- sanitize_for_tag and the composed tag

SanAlphabet == {"a", "_", ".", "-", "/", " "}

\* inputs longer than the default bound, ending in every short suffix
LongInputs ==
  {Rep("a", DefaultMaxLen - 1) \o t : t \in StringsUpTo({"a", "-", "/"}, 2)}

ComposeOwners == {<<"a">>, Rep("a", DefaultMaxLen + 5)}

ComposeRepos == {<<"b">>, Rep("b", 18), Rep("b", DefaultMaxLen + 10)}

ComposeTags == {<<"v", "1">>, Rep("1", 30)}

ComposeAuthors == {<<"x">>, Rep("x", 40)}

InitSanitize ==
  /\ PipeIdle
  /\ \/ \E s \in StringsUpTo(SanAlphabet, MaxSanLen) \cup LongInputs,
           m \in (1..MaxMaxLen) \cup {DefaultMaxLen} :
          probe = [fn |-> "sanitize_for_tag", s |-> s, max_len |-> m,
                   out |-> None, step |-> 0]
     \/ \E o \in ComposeOwners, r \in ComposeRepos, t \in ComposeTags,
           a \in ComposeAuthors :
          probe = [fn |-> "backup_tag", owner |-> o, repo_name |-> r,
                   raw_tag |-> t, author_login |-> a, out |-> None, step |-> 0]

Sanitize ==
  /\ probe.fn = "sanitize_for_tag" /\ probe.step = 0
  /\ probe' = [probe EXCEPT !.out = sanitize_for_tag(probe.s, probe.max_len),
                            !.step = 1]
  /\ UNCHANGED pipeVars

ComposeTag ==
  /\ probe.fn = "backup_tag" /\ probe.step = 0
  /\ probe' = [probe EXCEPT
                 !.out = backup_tag(probe.owner, probe.repo_name, probe.raw_tag,
                                    probe.author_login),
                 !.step = 1]
  /\ UNCHANGED pipeVars

NextSanitize == Sanitize \/ ComposeTag

SpecSanitize == InitSanitize /\ [][NextSanitize]_vars

OnlyTagChars(s) == \A i \in 1..Len(s) : IsTagChar(s[i])

\* C8 as stated: the result has only word characters, dot and hyphen, is at
\* most max_len long and is not empty; the composed tag is at most 100 long.
C8_BoundedEverywhere ==
  /\ (probe.fn = "sanitize_for_tag" /\ probe.step = 1) =>
       /\ OnlyTagChars(probe.out)
       /\ Len(probe.out) <= probe.max_len
       /\ probe.out # <<>>
  /\ (probe.fn = "backup_tag" /\ probe.step = 1) =>
       Len(probe.out) <= MaxBackupTag

\* C8 amended: the result has only word characters, dot and hyphen, is not
\* empty, and is at most max_len long unless it is the placeholder "unknown";
\* the composed tag is at most 100 long.
C8_BoundedOrPlaceholder ==
  /\ (probe.fn = "sanitize_for_tag" /\ probe.step = 1) =>
       /\ OnlyTagChars(probe.out)
       /\ Len(probe.out) <= probe.max_len \/ probe.out = unknown
       /\ probe.out # <<>>
  /\ (probe.fn = "backup_tag" /\ probe.step = 1) =>
       Len(probe.out) <= MaxBackupTag

\* a long input cut at the default bound, the cut leaving a trailing separator
C8_Witness ==
  /\ probe.fn = "sanitize_for_tag" /\ probe.step = 1
  /\ probe.max_len = DefaultMaxLen
  /\ probe.s = Rep("a", DefaultMaxLen - 1) \o <<"-", "a">>
  /\ probe.out = Rep("a", DefaultMaxLen - 1)

\* ------------------------------------------------------------- parse_target, both input shapes

NameAlphabet == {"a", " ", "/"}

EmptyDict == [k \in {} |-> Null]

\* the prerelease keys of an entry: none, one key, or two keys that disagree
FlagDicts ==
  {EmptyDict}
    \cup {(allow_keys[i] :> Bool(b)) : i \in 1..Len(allow_keys), b \in BOOLEAN}
    \cup {(allow_keys[p[1]] :> Bool(TRUE)) @@ (allow_keys[p[2]] :> Bool(FALSE)) :
            p \in {q \in (1..Len(allow_keys)) \X (1..Len(allow_keys)) : q[1] # q[2]}}

InitParse ==
  /\ PipeIdle
  /\ \E o \in StringsUpTo(NameAlphabet, MaxNameLen),
        r \in StringsUpTo(NameAlphabet, MaxNameLen),
        f \in FlagDicts, k \in {"owner", "user"} :
       probe = [fn |-> "parse_target", owner |-> o, repo |-> r, flags |-> f,
                owner_key |-> k, combined |-> NoneTriple, separate |-> NoneTriple,
                no_owner |-> NoneTriple, no_repo |-> NoneTriple, step |-> 0]

\* {"repo": "owner/repo", ...}
ParseCombined ==
  /\ probe.fn = "parse_target" /\ probe.step = 0
  /\ probe' = [probe EXCEPT
                 !.combined = parse_target(
                   probe.flags @@ ("repo" :> Str(probe.owner \o <<"/">> \o probe.repo))),
                 !.step = 1]
  /\ UNCHANGED pipeVars

\* {"owner": "owner", "repo": "repo", ...}
ParseSeparate ==
  /\ probe.fn = "parse_target" /\ probe.step = 1
  /\ probe' = [probe EXCEPT
                 !.separate = parse_target(
                   probe.flags @@ (probe.owner_key :> Str(probe.owner))
                               @@ ("repo" :> Str(probe.repo))),
                 !.step = 2]
  /\ UNCHANGED pipeVars

\* {"repo": "repo", ...}
ParseNoOwner ==
  /\ probe.fn = "parse_target" /\ probe.step = 2
  /\ probe' = [probe EXCEPT
                 !.no_owner = parse_target(probe.flags @@ ("repo" :> Str(probe.repo))),
                 !.step = 3]
  /\ UNCHANGED pipeVars

\* {"owner": "owner", ...}
ParseNoRepo ==
  /\ probe.fn = "parse_target" /\ probe.step = 3
  /\ probe' = [probe EXCEPT
                 !.no_repo = parse_target(
                   probe.flags @@ (probe.owner_key :> Str(probe.owner))),
                 !.step = 4]
  /\ UNCHANGED pipeVars

NextParse == ParseCombined \/ ParseSeparate \/ ParseNoOwner \/ ParseNoRepo

SpecParse == InitParse /\ [][NextParse]_vars

\* a name that is not blank and holds no "/"
IsValidName(n) == Strip(n) # <<>> /\ FindSlash(n, 1) = 0

\* C9: for a valid owner and repo, the combined "owner/repo" entry and the
\* separate-fields entry parse to the same triple, the stripped owner and repo
\* with the flag of the first accepted prerelease key present (every key name
\* carries it); an entry without owner or without repo parses to
\* (None, None, None), raises nothing, and is skipped by main().
C9_ShapeIndependent ==
  (probe.fn = "parse_target" /\ probe.step = 4) =>
    /\ (IsValidName(probe.owner) /\ IsValidName(probe.repo)) =>
         /\ probe.combined = probe.separate
         /\ probe.combined.owner = Strip(probe.owner)
         /\ probe.combined.repo_name = Strip(probe.repo)
         /\ ~probe.combined.none /\ ~probe.combined.raised
         /\ ~IsSkippedEntry(probe.combined)
         /\ \A i \in 1..Len(allow_keys), b \in BOOLEAN :
              probe.flags = (allow_keys[i] :> Bool(b)) =>
                probe.combined.allow_prerelease = b
    /\ FindSlash(probe.repo, 1) = 0 =>
         probe.no_owner = NoneTriple /\ IsSkippedEntry(probe.no_owner)
    /\ probe.no_repo = NoneTriple /\ IsSkippedEntry(probe.no_repo)

C9_Witness ==
  /\ probe.fn = "parse_target" /\ probe.step = 4
  /\ probe.owner = <<" ", "a">> /\ probe.repo = <<"a", " ">>
  /\ probe.flags = ("prerelease" :> Bool(TRUE))
  /\ probe.combined = Triple(<<"a">>, <<"a">>, TRUE)
  /\ probe.separate = probe.combined
  /\ probe.no_owner = NoneTriple

\* ------------------------------------------------------------- get_latest_release on every short release list

ProbeRelease(i, d, p) == Release(i, <<"v", "1">>, <<"x">>, d, p, 0)

RECURSIVE ReleaseLists(_)
ReleaseLists(n) ==
  IF n = 0 THEN {<<>>}
  ELSE LET shorter == ReleaseLists(n - 1)
       IN shorter \cup {Append(l, ProbeRelease(Len(l) + 1, d, p)) :
                          l \in shorter, d \in BOOLEAN, p \in BOOLEAN}

\* the releases the host may serve as latest
LatestChoices(rels) ==
  LET stable == {i \in 1..Len(rels) : ~rels[i].draft /\ ~rels[i].prerelease}
  IN IF stable = {} THEN {0} ELSE stable

InitFetch ==
  /\ PipeIdle
  /\ \E rels \in ReleaseLists(MaxReleases), a \in BOOLEAN :
     \E l \in LatestChoices(rels) :
       probe = [fn |-> "get_latest_release", releases |-> rels, host_latest |-> l,
                allow_prerelease |-> a, latest |-> Response(0, NoRelease),
                listing |-> Response(0, <<>>),
                out |-> [release |-> NoRelease, listed |-> FALSE], step |-> 0]

GetLatestRelease ==
  /\ probe.fn = "get_latest_release" /\ probe.step = 0
  /\ \E latest \in LatestResponses(Upstream(probe.releases, probe.host_latest)),
        listing \in ListingResponses(Upstream(probe.releases, probe.host_latest)) :
       probe' = [probe EXCEPT
                  !.latest = latest,
                  !.listing = listing,
                  !.out = get_latest_release(latest, listing, probe.allow_prerelease),
                  !.step = 1]
  /\ UNCHANGED pipeVars

NextFetch == GetLatestRelease

SpecFetch == InitFetch /\ [][NextFetch]_vars

Qualifies(rel, allow_prerelease) ==
  ~rel.draft /\ (allow_prerelease \/ ~rel.prerelease)

\* C5: when prereleases are allowed, or they are not and the latest lookup
\* answers 404, the listing is requested and the result is the first release
\* of the listing that is no draft and (unless prereleases are allowed) no
\* prerelease, None when there is none or the listing fails; no draft is
\* ever returned.
C5_ListingFallback ==
  (probe.fn = "get_latest_release" /\ probe.step = 1) =>
    LET rels == probe.releases
        a == probe.allow_prerelease
        good == {i \in 1..Len(rels) : Qualifies(rels[i], a)}
    IN /\ (a \/ probe.latest.status = 404) =>
            /\ probe.out.listed
            /\ probe.listing.status # 200 => probe.out.release = NoRelease
            /\ (probe.listing.status = 200 /\ good = {}) =>
                 probe.out.release = NoRelease
            /\ (probe.listing.status = 200 /\ good # {}) =>
                 /\ probe.out.release \in {rels[i] : i \in good}
                 /\ \A i \in good : probe.out.release.id <= i
       /\ ~probe.out.release.draft

\* prereleases allowed, a draft first: the prerelease behind it is returned
C5_Witness ==
  /\ probe.fn = "get_latest_release" /\ probe.step = 1
  /\ probe.allow_prerelease
  /\ Len(probe.releases) = 2
  /\ probe.releases[1].draft
  /\ ~probe.releases[2].draft /\ probe.releases[2].prerelease
  /\ probe.listing.status = 200
  /\ probe.out.listed
  /\ probe.out.release = probe.releases[2]

====
